---- MODULE Spec2Model ----
(***************************************************************************)
(* Gameplay core of tyylog/CGProject: Enemy (entities/Enemy.js), Character *)
(* (entities/Character.js), CombatSystem (systems/CombatSystem.js) and the *)
(* frame loop of Game (core/Game.js).                                      *)
(*                                                                         *)
(* Units.  Time is counted in units of 200 ms (0.2 s): 1.0 s = 5 units,   *)
(* 1000 ms = 5 units, the 0.2 s animation fade = 1 unit.  Lengths are in   *)
(* world units on one horizontal axis (x); moveSpeed 5 per second is 1     *)
(* world unit per time unit.                                               *)
(***************************************************************************)
EXTENDS Integers, Sequences, FiniteSets, TLC

\* ------------------------------------------------------------------ bounds
MaxNow == 35          \* frames stop once performance.now() reaches this
MaxPos == 5           \* positions lie in 0..MaxPos
MaxSpawnTime == 8     \* the Enemy harness stops updating at this spawnTime
MaxDeathCalls == 3    \* the Character harness stops at this many callbacks
SpawnWindow == 2      \* the spawner creates its enemies in the first frames
MaxCombatNow == 12    \* the CombatSystem harness stops at this performance.now()
MaxSoloNow == 21      \* and its one-enemy variant at this one

Deltas == {1, 2}      \* frame times clock.getDelta() returns (0.2 s, 0.4 s)
Amounts == {0, 10, 20}       \* damage amounts the harness passes to takeDamage
HarnessPlayerXs == {0, 1, 2, MaxPos}   \* player positions the harness passes

\* ------------------------------------------------------- program constants
enemyMaxHp == 30             \* enemyOptions.maxHp
enemyMoveSpeed == 1          \* enemyOptions.moveSpeed: 5 per second
enemyAttackRange == 2        \* enemyOptions.attackRange
enemyAttackDamage == 5       \* enemyOptions.attackDamage
enemyOwnAttackCooldown == 5  \* enemyOptions.attackCooldown: 1.0 s
spawnDelay == 5              \* Enemy.spawnDelay: 1.0 s
fadeDuration == 1            \* fadeOut(0.2) / fadeIn(0.2)
playerAttackDamage == 15     \* CombatSystem.playerAttackDamage
enemyAttackCooldown == 5     \* CombatSystem.enemyAttackCooldown: 1.0 s
rehitCooldown == 5           \* now - lastHit < 1000
knockback == 1               \* knockbackDir.multiplyScalar(1.0)
startDelay == 25             \* setTimeout(..., 5000) before isGameStarted
characterHp == 100           \* Character.hp / maxHp
defaultMaxHp == 50           \* Enemy.constructor: maxHp = 50 by default
groundY == 0                 \* ground.position.y = 0

None == "none"

Abs(n) == IF n < 0 THEN -n ELSE n
Sign(n) == IF n < 0 THEN -1 ELSE IF n > 0 THEN 1 ELSE 0
Max(a, b) == IF a >= b THEN a ELSE b
Min(a, b) == IF a <= b THEN a ELSE b

\* --------------------------------------------------------------- animation
\* The six clips of the enemy model.  Idle and Run loop and never finish;
\* the others are played with LoopOnce and dispatch 'finished'.
OneShot == {"Punch", "Kick", "Hit", "Death"}
Looping == {"Idle", "Run"}

\* Order in which the mixer advances the active actions of one update.
ClipOrder == <<"Punch", "Kick", "Hit", "Death">>

\* Clip length in time units AFTER the effective time scale (1.8 for the
\* attack clips, 1.5 for Hit, 1.3 for Death).  The lengths are data of the
\* model file Akaza.glb, not of the source.
ClipDuration(c) ==
    CASE c = "Punch" -> 2
      [] c = "Kick"  -> 4
      [] c = "Hit"   -> 2
      [] c = "Death" -> 3

\* One LoopOnce action of the mixer: st "run" while it is enabled and not
\* finished, t its time, fade the time left of a fadeOut (-1: not fading).
ClipOff == [st |-> "off", t |-> 0, fade |-> -1]
ClipStarted == [st |-> "run", t |-> 0, fade |-> -1]

\* ------------------------------------------------------------------- Enemy
States == {"idle", "chase", "attack", "hit", "death"}

\* Enemy.constructor: the state after construction at position x.
NewEnemy(x) ==
    [ hp |-> enemyMaxHp, maxHp |-> enemyMaxHp,
      attackRange |-> enemyAttackRange, attackDamage |-> enemyAttackDamage,
      attackCooldown |-> enemyOwnAttackCooldown,
      state |-> "idle", isDying |-> FALSE, spawnTime |-> 0,
      previousState |-> "idle", isAttackActive |-> FALSE,
      attackSoundPlayed |-> FALSE,
      isModelLoaded |-> FALSE, hitBox |-> FALSE,
      currentAction |-> None,
      clips |-> [c \in OneShot |-> ClipOff],
      x |-> x,               \* mesh.position (horizontal)
      boxX |-> {},           \* {x} once hitBoxCollider was computed at x
      sfx |-> <<>>,          \* sounds this enemy triggered in the current call
      deathCallbacks |-> 0 ] \* invocations of onDeathCallback so far

\* The loader's onLoad callback of Enemy._loadModel.
LoadModel(en) ==
    [en EXCEPT !.isModelLoaded = TRUE, !.hitBox = TRUE,
               !.currentAction = "Idle"]

\* AnimationAction.fadeOut(0.2) / stop() on the current action.
FadeOutClip(clips, name) ==
    IF name \in OneShot /\ clips[name].st = "run"
    THEN [clips EXCEPT ![name].fade = fadeDuration]
    ELSE clips

StopClip(clips, name) ==
    IF name \in OneShot THEN [clips EXCEPT ![name] = ClipOff] ELSE clips

\* Enemy.playAnimation(name, loop).
PlayAnimation(en, name) ==
    IF ~en.isModelLoaded THEN en
    ELSE IF en.currentAction = name THEN en
    ELSE LET isImportantAnim == name \in {"Hit", "Death"}
             old == IF en.currentAction = None THEN en.clips
                    ELSE IF isImportantAnim
                         THEN StopClip(en.clips, en.currentAction)
                         ELSE FadeOutClip(en.clips, en.currentAction)
             new == IF name \in OneShot
                    THEN [old EXCEPT ![name] = ClipStarted]
                    ELSE old
         IN  [en EXCEPT !.clips = new, !.currentAction = name]

PlaySFX(en, name) == [en EXCEPT !.sfx = Append(@, name)]

\* The 'Hit' branch of the mixer's 'finished' listener.
HitFinished(en) ==
    LET r == [en EXCEPT !.state = en.previousState]
    IN  CASE en.previousState = "idle"   -> PlayAnimation(r, "Idle")
          [] en.previousState = "chase"  -> PlayAnimation(r, "Run")
          [] en.previousState = "attack" ->
                PlayAnimation([r EXCEPT !.state = "chase"], "Run")
          [] OTHER -> r

\* The 'Punch' / 'Kick' branch of the 'finished' listener.
AttackFinished(en) ==
    PlayAnimation([en EXCEPT !.state = "idle", !.isAttackActive = FALSE],
                  "Idle")

\* The 'Death' branch of the 'finished' listener: onDeathCallback(this).
DeathFinished(en) == [en EXCEPT !.deathCallbacks = @ + 1]

\* The mixer's 'finished' listener installed by Enemy._loadModel.
OnFinished(en, clipName) ==
    LET e1 == IF clipName = "Death" THEN DeathFinished(en) ELSE en
        e2 == IF clipName = "Hit" THEN HitFinished(e1) ELSE e1
    IN  IF clipName \in {"Punch", "Kick"} THEN AttackFinished(e2) ELSE e2

\* AnimationAction._update of one LoopOnce action: the time advances while the
\* action is enabled, 'finished' is dispatched when it reaches the duration,
\* and a fade-out that has run out disables the action after this advance.
AdvanceClip(en, c, delta) ==
    LET a == en.clips[c]
    IN  IF a.st # "run" THEN en
        ELSE IF a.t + delta >= ClipDuration(c)
        THEN OnFinished([en EXCEPT !.clips[c] = ClipOff], c)
        ELSE IF a.fade >= 0 /\ delta > a.fade
        THEN [en EXCEPT !.clips[c] = ClipOff]
        ELSE [en EXCEPT !.clips[c].t = a.t + delta,
                        !.clips[c].fade = IF a.fade >= 0 THEN a.fade - delta
                                          ELSE -1]

RECURSIVE AdvanceFrom(_, _, _)
AdvanceFrom(en, i, delta) ==
    IF i > Len(ClipOrder) THEN en
    ELSE AdvanceFrom(AdvanceClip(en, ClipOrder[i], delta), i + 1, delta)

\* this.mixer.update(delta); the mixer exists once the model is loaded.
MixerUpdate(en, delta) ==
    IF en.isModelLoaded THEN AdvanceFrom(en, 1, delta) ELSE en

\* The attack state's hit window: 0.45 <= time / duration <= 0.55.
InHitWindow(t, duration) == 45 * duration <= 100 * t /\ 100 * t <= 55 * duration

\* Mutant of StartAttack: attackSoundPlayed is not reset.
StartAttack_NoRearm(en, randomAttack) ==
    PlayAnimation([en EXCEPT !.state = "attack", !.isAttackActive = FALSE],
                  randomAttack)

\* Entering attack from idle or chase: the flags and the random clip.
StartAttack(en, randomAttack) ==
    PlayAnimation([en EXCEPT !.state = "attack", !.isAttackActive = FALSE,
                             !.attackSoundPlayed = FALSE],
                  randomAttack)

\* Enemy._moveTowardsPlayer(delta, dir), dir = player - enemy on the x axis.
MoveTowardsPlayer(en, delta, dir) ==
    IF dir = 0 THEN en
    ELSE [en EXCEPT !.x = @ + Sign(dir) * enemyMoveSpeed * delta]

\* Mutant of AttackStep: leaving for chase does not close the hit window.
AttackStep_KeepsWindow(en, distance, loopProgress) ==
    LET inWindow == IF en.currentAction \in OneShot
                    THEN InHitWindow(en.clips[en.currentAction].t,
                                     ClipDuration(en.currentAction))
                    ELSE loopProgress
        e1 == IF en.currentAction = None THEN en
              ELSE IF inWindow
              THEN LET a == [en EXCEPT !.isAttackActive = TRUE]
                   IN  IF ~a.attackSoundPlayed
                       THEN [PlaySFX(a, "enemyAttack")
                                EXCEPT !.attackSoundPlayed = TRUE]
                       ELSE a
              ELSE [en EXCEPT !.isAttackActive = FALSE]
    IN  IF distance > e1.attackRange
        THEN [e1 EXCEPT !.state = "chase"]
        ELSE e1

\* case 'attack' of Enemy.update: the hit window of the current action, then
\* the range check.  loopProgress stands for the progress test on a looping
\* current action (Idle or Run), whose time the model does not keep.
AttackStep(en, distance, loopProgress) ==
    LET inWindow == IF en.currentAction \in OneShot
                    THEN InHitWindow(en.clips[en.currentAction].t,
                                     ClipDuration(en.currentAction))
                    ELSE loopProgress
        e1 == IF en.currentAction = None THEN en
              ELSE IF inWindow
              THEN LET a == [en EXCEPT !.isAttackActive = TRUE]
                   IN  IF ~a.attackSoundPlayed
                       THEN [PlaySFX(a, "enemyAttack")
                                EXCEPT !.attackSoundPlayed = TRUE]
                       ELSE a
              ELSE [en EXCEPT !.isAttackActive = FALSE]
    IN  IF distance > e1.attackRange
        THEN [e1 EXCEPT !.state = "chase", !.isAttackActive = FALSE]
        ELSE e1

\* Mutant of StateStep: an idle enemy past its spawn delay always chases.
StateStep_IdleAlwaysChases(en, delta, dir, randomAttack, loopProgress) ==
    LET distance == Abs(dir)
    IN  CASE en.state = "idle" ->
               IF en.spawnTime >= spawnDelay
               THEN [en EXCEPT !.state = "chase"]
               ELSE en
          [] en.state = "chase" ->
               IF distance <= en.attackRange
               THEN StartAttack(en, randomAttack)
               ELSE MoveTowardsPlayer(en, delta, dir)
          [] en.state = "attack" -> AttackStep(en, distance, loopProgress)
          [] OTHER -> en

\* The switch on this.state in Enemy.update.
StateStep(en, delta, dir, randomAttack, loopProgress) ==
    LET distance == Abs(dir)
    IN  CASE en.state = "idle" ->
               IF en.spawnTime >= spawnDelay
               THEN IF distance <= en.attackRange
                    THEN StartAttack(en, randomAttack)
                    ELSE [en EXCEPT !.state = "chase"]
               ELSE en
          [] en.state = "chase" ->
               IF distance <= en.attackRange
               THEN StartAttack(en, randomAttack)
               ELSE MoveTowardsPlayer(en, delta, dir)
          [] en.state = "attack" -> AttackStep(en, distance, loopProgress)
          [] OTHER -> en

\* The animation change after the switch, when the state has changed.
StateChanged(prevState, en) ==
    IF prevState # en.state
    THEN CASE en.state = "idle"  -> PlayAnimation(en, "Idle")
           [] en.state = "chase" -> PlayAnimation(en, "Run")
           [] OTHER -> en
    ELSE en

\* updateCollider(); updateHitBoxCollider(): the boxes follow the mesh.
UpdateColliders(en) == IF en.hitBox THEN [en EXCEPT !.boxX = {en.x}] ELSE en

\* Enemy.update(delta, player).
Update(en, delta, px, playerDying, randomAttack, loopProgress) ==
    LET m == MixerUpdate(en, delta)
    IN  IF m.state = "death" THEN m
        ELSE IF playerDying THEN m
        ELSE LET s == [m EXCEPT !.spawnTime = @ + delta]
                 t == StateStep(s, delta, px - s.x, randomAttack, loopProgress)
             IN  UpdateColliders(StateChanged(s.state, t))

\* Mutant of Die: the death sequence starts but state is left as it was.
Die_StateUnchanged(en) ==
    IF ~en.isDying /\ en.isModelLoaded
    THEN PlaySFX(PlayAnimation([en EXCEPT !.isDying = TRUE], "Death"),
                 "enemyHit")
    ELSE en

\* Enemy.die().
Die(en) ==
    IF ~en.isDying /\ en.isModelLoaded
    THEN PlaySFX(PlayAnimation([en EXCEPT !.isDying = TRUE,
                                          !.state = "death"], "Death"),
                 "enemyHit")
    ELSE en

\* Mutant of TakeDamage: the new hp is not clamped at 0.
TakeDamage_NoClamp(en, amount) ==
    IF en.isDying THEN en
    ELSE LET d == [en EXCEPT !.hp = en.hp - amount]
         IN  IF d.hp <= 0 THEN Die(d)
             ELSE PlaySFX(PlayAnimation([d EXCEPT !.previousState = d.state,
                                                  !.state = "hit"], "Hit"),
                          "enemyHit")

\* Mutant of TakeDamage: no early return; the isDying test only guards die(),
\* so a dying enemy falls into the hit reaction.
TakeDamage_DyingGuardsDieOnly(en, amount) ==
    LET d == [en EXCEPT !.hp = Max(0, en.hp - amount)]
    IN  IF d.hp <= 0 /\ ~d.isDying THEN Die(d)
        ELSE PlaySFX(PlayAnimation([d EXCEPT !.previousState = d.state,
                                             !.state = "hit"], "Hit"),
                     "enemyHit")

\* Mutant of TakeDamage: the state is overwritten before it is saved.
TakeDamage_SavesAfterOverwrite(en, amount) ==
    IF en.isDying THEN en
    ELSE LET d == [en EXCEPT !.hp = Max(0, en.hp - amount)]
         IN  IF d.hp <= 0 THEN Die(d)
             ELSE PlaySFX(PlayAnimation([d EXCEPT !.previousState = "hit",
                                                  !.state = "hit"], "Hit"),
                          "enemyHit")

\* Enemy.takeDamage(amount).
TakeDamage(en, amount) ==
    IF en.isDying THEN en
    ELSE LET d == [en EXCEPT !.hp = Max(0, en.hp - amount)]
         IN  IF d.hp <= 0 THEN Die(d)
             ELSE PlaySFX(PlayAnimation([d EXCEPT !.previousState = d.state,
                                                  !.state = "hit"], "Hit"),
                          "enemyHit")

\* --------------------------------------------------------------- Character
\* Character.constructor.
NewCharacter == [hp |-> characterHp, maxHp |-> characterHp, deathCallbacks |-> 0]

\* Character.die(): onDeathCallback(this).
CharacterDie(ch) == [ch EXCEPT !.deathCallbacks = @ + 1]

\* Character.takeDamage(amount).
CharacterTakeDamage(ch, amount) ==
    LET d == [ch EXCEPT !.hp = Max(0, ch.hp - amount)]
    IN  IF d.hp <= 0 THEN CharacterDie(d) ELSE d

\* ------------------------------------------------------------------ Player
\* entities/Player.js is not among the sources: the player is modelled from
\* the specification's Combatant / Player data model and from the fields the
\* combat loop and Enemy.update read.
PlayerHps == {10}

NewPlayer(hp) ==
    [ hp |-> hp, maxHp |-> hp, x |-> 2, y |-> groundY, isDying |-> FALSE,
      isAttackActive |-> FALSE, attackHitbox |-> FALSE,
      deathCallbacks |-> 0 ]

\* takeDamage of the player: clamps hp, starts the death sequence once.
PlayerTakeDamage(p, amount) ==
    IF p.isDying THEN p
    ELSE LET d == [p EXCEPT !.hp = Max(0, p.hp - amount)]
         IN  IF d.hp <= 0 THEN [d EXCEPT !.isDying = TRUE] ELSE d

\* player.update(delta, input) followed by _clampPlayerToGround(): the input
\* moves the player and opens or closes the strike's damage window; a dying
\* player only plays its death sequence, whose end (deathDone) invokes
\* onDeathCallback once.
PlayerUpdate(p, move, strike, deathDone) ==
    IF p.isDying
    THEN IF deathDone /\ p.deathCallbacks = 0
         THEN [p EXCEPT !.deathCallbacks = 1]
         ELSE p
    ELSE [p EXCEPT !.x = Max(0, Min(MaxPos, p.x + move)),
                   !.isAttackActive = strike]

\* ------------------------------------------------------------ CombatSystem
\* Box3.intersectsBox of the player's attack volume (around the player) and
\* the enemy's hitBoxCollider; an empty Box3 intersects nothing.  Both boxes
\* reach one unit to each side of their centre.
IntersectsBox(px, boxX) ==
    \E b \in boxX : ~((b + 1 < px - 1) \/ (b - 1 > px + 1))

\* Mutant of PlayerHitsEnemy: the hit's time is not stored in _lastHitTime.
PlayerHitsEnemy_NoTimestamp(w, id, t) ==
    LET en == w.enemy[id]
    IN  IF ~en.hitBox THEN w
        ELSE IF ~IntersectsBox(w.player.x, en.boxX) THEN w
        ELSE IF t - w.lastHitTime[id] < rehitCooldown THEN w
        ELSE LET hit == TakeDamage(en, playerAttackDamage)
                 knockbackDir == Sign(hit.x - w.player.x)
             IN  [w EXCEPT !.enemy[id] =
                              [hit EXCEPT !.x = @ + knockbackDir * knockback],
                           !.hitTimes[id] = <<w.hitTimes[id][2], t>>]

\* Mutant of PlayerHitsEnemy: one timestamp shared by all enemies.
PlayerHitsEnemy_SharedTimestamp(w, id, t) ==
    LET en == w.enemy[id]
    IN  IF ~en.hitBox THEN w
        ELSE IF ~IntersectsBox(w.player.x, en.boxX) THEN w
        ELSE IF t - w.lastHitTime[id] < rehitCooldown THEN w
        ELSE LET hit == TakeDamage(en, playerAttackDamage)
                 knockbackDir == Sign(hit.x - w.player.x)
             IN  [w EXCEPT !.enemy[id] =
                              [hit EXCEPT !.x = @ + knockbackDir * knockback],
                           !.lastHitTime = [j \in DOMAIN @ |-> t],
                           !.hitTimes[id] = <<w.hitTimes[id][2], t>>]

\* The body of the forEach of _handlePlayerAttack for one enemy.
\* w is the world the frame works on, t the value of performance.now().
PlayerHitsEnemy(w, id, t) ==
    LET en == w.enemy[id]
    IN  IF ~en.hitBox THEN w
        ELSE IF ~IntersectsBox(w.player.x, en.boxX) THEN w
        ELSE IF t - w.lastHitTime[id] < rehitCooldown THEN w
        ELSE LET hit == TakeDamage(en, playerAttackDamage)
                 knockbackDir == Sign(hit.x - w.player.x)
             IN  [w EXCEPT !.enemy[id] =
                              [hit EXCEPT !.x = @ + knockbackDir * knockback],
                           !.lastHitTime[id] = t,
                           !.hitTimes[id] = <<w.hitTimes[id][2], t>>]

RECURSIVE PlayerAttackFrom(_, _, _, _)
PlayerAttackFrom(w, list, i, t) ==
    IF i > Len(list) THEN w
    ELSE PlayerAttackFrom(PlayerHitsEnemy(w, list[i], t), list, i + 1, t)

\* Mutant of HandlePlayerAttack: the player's attack volume is not asked for.
HandlePlayerAttack_NoVolumeCheck(w, t) ==
    IF ~w.player.isAttackActive THEN w
    ELSE PlayerAttackFrom(w, w.enemies, 1, t)

\* CombatSystem._handlePlayerAttack(player, enemies).
HandlePlayerAttack(w, t) ==
    IF ~w.player.isAttackActive THEN w
    ELSE IF ~w.player.attackHitbox THEN w
    ELSE PlayerAttackFrom(w, w.enemies, 1, t)

\* The range test of _handleEnemyAttacks: the length of the vector from the
\* enemy's mesh.position to the player's, all three components of it.  An
\* enemy stands at groundY once update() has run; lengths are compared by
\* their squares.
BeyondRange(p, en) ==
    LET dx == p.x - en.x
        dy == p.y - groundY
    IN  dx * dx + dy * dy > en.attackRange * en.attackRange

\* Mutant of EnemyAttacksPlayer: no range test.
EnemyAttacksPlayer_NoRangeCheck(w, id, delta) ==
    LET en == w.enemy[id]
        timer == w.enemyAttackTimers[id]
    IN  IF timer > 0
        THEN [w EXCEPT !.enemyAttackTimers[id] = timer - delta]
        ELSE [w EXCEPT !.player = PlayerTakeDamage(w.player, en.attackDamage),
                       !.enemyAttackTimers[id] = enemyAttackCooldown]

\* Mutant of EnemyAttacksPlayer: the timer runs down before the range test.
EnemyAttacksPlayer_DecrementsFirst(w, id, delta) ==
    LET en == w.enemy[id]
        timer == w.enemyAttackTimers[id]
    IN  IF timer > 0
        THEN [w EXCEPT !.enemyAttackTimers[id] = timer - delta]
        ELSE IF BeyondRange(w.player, en) THEN w
        ELSE [w EXCEPT !.player = PlayerTakeDamage(w.player, en.attackDamage),
                       !.enemyAttackTimers[id] = enemyAttackCooldown]

\* Mutant of EnemyAttacksPlayer: the attack lands only in the enemy's own
\* attack window.
EnemyAttacksPlayer_NeedsWindow(w, id, delta) ==
    LET en == w.enemy[id]
        timer == w.enemyAttackTimers[id]
    IN  IF BeyondRange(w.player, en) THEN w
        ELSE IF timer > 0
        THEN [w EXCEPT !.enemyAttackTimers[id] = timer - delta]
        ELSE IF ~en.isAttackActive THEN w
        ELSE [w EXCEPT !.player = PlayerTakeDamage(w.player, en.attackDamage),
                       !.enemyAttackTimers[id] = enemyAttackCooldown]

\* The body of the forEach of _handleEnemyAttacks for one enemy.
EnemyAttacksPlayer(w, id, delta) ==
    LET en == w.enemy[id]
        timer == w.enemyAttackTimers[id]
    IN  IF BeyondRange(w.player, en) THEN w
        ELSE IF timer > 0
        THEN [w EXCEPT !.enemyAttackTimers[id] = timer - delta]
        ELSE [w EXCEPT !.player = PlayerTakeDamage(w.player, en.attackDamage),
                       !.enemyAttackTimers[id] = enemyAttackCooldown]

RECURSIVE EnemyAttacksFrom(_, _, _, _)
EnemyAttacksFrom(w, list, i, delta) ==
    IF i > Len(list) THEN w
    ELSE EnemyAttacksFrom(EnemyAttacksPlayer(w, list[i], delta), list, i + 1,
                          delta)

\* CombatSystem._handleEnemyAttacks(delta, player, enemies).
HandleEnemyAttacks(w, delta) == EnemyAttacksFrom(w, w.enemies, 1, delta)

\* CombatSystem.update(delta, player, enemies).
CombatUpdate(w, delta, t) == HandleEnemyAttacks(HandlePlayerAttack(w, t), delta)

\* -------------------------------------------------------------------- Game
VARIABLES
    now,                \* performance.now()
    game,               \* isGameStarted, isGameOver, elapsedTime, killCount
    player,             \* Game.player
    enemy,              \* every Enemy object constructed so far, by identity
    spawned,            \* how many Enemy objects were constructed
    enemies,            \* EnemySpawner.enemies, the live collection
    lastHitTime,        \* CombatSystem._lastHitTime (get(e) || 0)
    enemyAttackTimers,  \* CombatSystem._enemyAttackTimers (get(e) || 0)
    hitTimes,           \* per enemy, the times of the last two player hits
    maxEnemies,         \* EnemySpawner.maxEnemies
    character,          \* a base Character, driven by the Character harness
    lastOp              \* the operation the last harness step performed

vars == <<now, game, player, enemy, spawned, enemies, lastHitTime,
          enemyAttackTimers, hitTimes, maxEnemies, character, lastOp>>

Ids == {1, 2}            \* identities of the Enemy objects of one run
EnemyCounts == {1}       \* EnemySpawner.maxEnemies of a run of Spec
CharacterAmounts == {0, 1, 7, 100}   \* amounts given to Character.takeDamage
SpawnXs == {0, MaxPos}
NoOp == [op |-> None, amount |-> 0, pre |-> NewEnemy(0)]

\* The part of the state a frame works on.
World ==
    [ enemy |-> enemy, enemies |-> enemies, player |-> player,
      killCount |-> game.killCount, isGameOver |-> game.isGameOver,
      lastHitTime |-> lastHitTime, enemyAttackTimers |-> enemyAttackTimers,
      hitTimes |-> hitTimes ]

\* Mutant of HandleEnemyDeath: the kill is counted, the enemy stays in the
\* live collection.
HandleEnemyDeath_CountOnly(w, id) == [w EXCEPT !.killCount = @ + 1]

\* Game.handleEnemyDeath(enemy).
HandleEnemyDeath(w, id) ==
    [w EXCEPT !.killCount = @ + 1,
              !.enemies = SelectSeq(w.enemies, LAMBDA e : e # id)]

\* Game.handlePlayerDeath().
HandlePlayerDeath(w) == [w EXCEPT !.isGameOver = TRUE]

\* this.player.update(delta, this.input) with the player's death callback.
PlayerStep(w, move, strike, deathDone) ==
    LET p == PlayerUpdate(w.player, move, strike, deathDone)
        u == [w EXCEPT !.player = p]
    IN  IF p.deathCallbacks > w.player.deathCallbacks
        THEN HandlePlayerDeath(u) ELSE u

\* The body of enemies.forEach(enemy => enemy.update(delta, player)); the
\* enemy's death callback is Game.handleEnemyDeath.
EnemyStep(w, id, delta, randomAttack, loopProgress) ==
    LET en == Update(w.enemy[id], delta, w.player.x, w.player.isDying,
                     randomAttack[id], loopProgress)
        u == [w EXCEPT !.enemy[id] = en]
    IN  IF en.deathCallbacks > w.enemy[id].deathCallbacks
        THEN HandleEnemyDeath(u, id) ELSE u

\* Mutant of UpdateFrom: the pass walks the live collection, from which
\* handleEnemyDeath has taken the enemy out.
RECURSIVE UpdateFrom_LiveArray(_, _, _, _, _, _)
UpdateFrom_LiveArray(w, list, i, delta, randomAttack, loopProgress) ==
    IF i > Len(w.enemies) THEN w
    ELSE UpdateFrom_LiveArray(EnemyStep(w, w.enemies[i], delta, randomAttack,
                                        loopProgress),
                              list, i + 1, delta, randomAttack, loopProgress)

\* forEach walks the array it was called on, also after handleEnemyDeath has
\* put a filtered copy in its place.
RECURSIVE UpdateFrom(_, _, _, _, _, _)
UpdateFrom(w, list, i, delta, randomAttack, loopProgress) ==
    IF i > Len(list) THEN w
    ELSE UpdateFrom(EnemyStep(w, list[i], delta, randomAttack, loopProgress),
                    list, i + 1, delta, randomAttack, loopProgress)

\* EnemySpawner.update(delta, player): may construct one enemy (systems/
\* EnemySpawner.js is not among the sources).  spawnX = -1: no spawn.
SpawnerUpdate(w, n, spawnX) ==
    IF spawnX < 0 THEN w
    ELSE [w EXCEPT !.enemy[n + 1] = NewEnemy(spawnX),
                   !.enemies = Append(@, n + 1)]

ClearSfx(w) ==
    [w EXCEPT !.enemy = [i \in Ids |-> [w.enemy[i] EXCEPT !.sfx = <<>>]]]

\* Game.animate() up to the combat step: the player's update, the spawner and
\* the update pass over the live enemies.
BeforeCombat(w, n, delta, move, strike, deathDone, spawnX, attacks, progress) ==
    LET w1 == PlayerStep(ClearSfx(w), move, strike, deathDone)
        w2 == SpawnerUpdate(w1, n, spawnX)
    IN  UpdateFrom(w2, w2.enemies, 1, delta, attacks, progress)

\* The simulation part of Game.animate() for one frame.
Simulate(w, n, delta, t, move, strike, deathDone, spawnX, attacks, progress) ==
    CombatUpdate(BeforeCombat(w, n, delta, move, strike, deathDone, spawnX,
                              attacks, progress), delta, t)

Init ==
    /\ now = 0
    /\ game = [isGameStarted |-> FALSE, isGameOver |-> FALSE,
               elapsedTime |-> 0, killCount |-> 0]
    /\ \E hp \in PlayerHps : player = NewPlayer(hp)
    /\ enemy = [i \in Ids |-> NewEnemy(0)]
    /\ spawned = 0
    /\ enemies = <<>>
    /\ lastHitTime = [i \in Ids |-> 0]
    /\ enemyAttackTimers = [i \in Ids |-> 0]
    /\ hitTimes = [i \in Ids |-> <<0, 0>>]
    /\ \E n \in EnemyCounts : maxEnemies = n
    /\ character = NewCharacter
    /\ lastOp = NoOp

\* Game.animate() while the game has not started: render only.
FrameBeforeStart ==
    /\ ~game.isGameStarted
    /\ \E delta \in Deltas : now + delta <= startDelay /\ now' = now + delta
    /\ UNCHANGED <<game, player, enemy, spawned, enemies, lastHitTime,
                   enemyAttackTimers, hitTimes, maxEnemies, character,
                   lastOp>>

\* The start screen's 5000 ms timer.
StartGame ==
    /\ ~game.isGameStarted
    /\ now >= startDelay
    /\ game' = [game EXCEPT !.isGameStarted = TRUE]
    /\ UNCHANGED <<now, player, enemy, spawned, enemies, lastHitTime,
                   enemyAttackTimers, hitTimes, maxEnemies, character,
                   lastOp>>

\* Mutant of FrameGameOver: the game clock keeps running after game over.
FrameGameOver_ClockRuns ==
    /\ game.isGameStarted
    /\ game.isGameOver
    /\ now < MaxNow
    /\ \E delta \in Deltas :
          /\ now' = now + delta
          /\ game' = [game EXCEPT !.elapsedTime = @ + delta]
    /\ UNCHANGED <<player, enemy, spawned, enemies, lastHitTime,
                   enemyAttackTimers, hitTimes, maxEnemies, character,
                   lastOp>>

\* Game.animate() after game over: the UI is refreshed, nothing is simulated.
FrameGameOver ==
    /\ game.isGameStarted
    /\ game.isGameOver
    /\ now < MaxNow
    /\ \E delta \in Deltas : now' = now + delta
    /\ UNCHANGED <<game, player, enemy, spawned, enemies, lastHitTime,
                   enemyAttackTimers, hitTimes, maxEnemies, character,
                   lastOp>>

\* The enemies whose next update can draw Math.random(): those in idle or
\* chase.  For the others the draw is fixed, so that it is not enumerated.
RandomAttacks ==
    {f \in [Ids -> {"Punch", "Kick"}] :
        \A i \in Ids :
            (i > spawned \/ enemy[i].state \notin {"idle", "chase"})
                => f[i] = "Punch"}

\* Whether some enemy's attack state reads the progress of a looping action.
ReadsLoopProgress ==
    \E i \in 1..spawned :
        enemy[i].state = "attack" /\ enemy[i].currentAction \in Looping

\* Game.animate() while the game runs, the input's movement drawn from moves.
Frames(moves) ==
    /\ game.isGameStarted
    /\ ~game.isGameOver
    /\ now < MaxNow
    /\ \E delta \in Deltas, move \in moves, strike \in BOOLEAN,
          deathDone \in (IF player.isDying THEN BOOLEAN ELSE {FALSE}),
          spawnX \in (IF spawned < maxEnemies /\ game.elapsedTime < SpawnWindow
                      THEN SpawnXs \cup {-1} ELSE {-1}),
          randomAttack \in RandomAttacks,
          loopProgress \in (IF ReadsLoopProgress THEN BOOLEAN ELSE {FALSE}) :
        \E w \in {Simulate(World, spawned, delta, now + delta, move, strike,
                           deathDone, spawnX, randomAttack, loopProgress)} :
            /\ now' = now + delta
            /\ game' = [game EXCEPT !.elapsedTime = @ + delta,
                                    !.killCount = w.killCount,
                                    !.isGameOver = w.isGameOver]
            /\ player' = w.player
            /\ enemy' = w.enemy
            /\ spawned' = IF spawnX < 0 THEN spawned ELSE spawned + 1
            /\ enemies' = w.enemies
            /\ lastHitTime' = w.lastHitTime
            /\ enemyAttackTimers' = w.enemyAttackTimers
            /\ hitTimes' = w.hitTimes
    /\ UNCHANGED <<maxEnemies, character, lastOp>>

Frame == Frames({-1, 0, 1})

\* The GLTF loader's onLoad callback of one enemy.
EnemyModelLoaded ==
    \E id \in 1..spawned :
        /\ ~enemy[id].isModelLoaded
        /\ enemy' = [enemy EXCEPT ![id] = LoadModel(@)]
        /\ UNCHANGED <<now, game, player, spawned, enemies, lastHitTime,
                       enemyAttackTimers, hitTimes, maxEnemies, character,
                   lastOp>>

\* The player's model is loaded: its attack volume exists from now on.
PlayerModelLoaded ==
    /\ ~player.attackHitbox
    /\ player' = [player EXCEPT !.attackHitbox = TRUE]
    /\ UNCHANGED <<now, game, enemy, spawned, enemies, lastHitTime,
                   enemyAttackTimers, hitTimes, maxEnemies, character,
                   lastOp>>

Next ==
    \/ FrameBeforeStart
    \/ StartGame
    \/ FrameGameOver
    \/ Frame
    \/ EnemyModelLoaded
    \/ PlayerModelLoaded

Spec == Init /\ [][Next]_vars

\* ------------------------------------------------------------ Enemy harness
\* One Enemy object driven through its public operations in any order:
\* the loader's callback, update(delta, player) and takeDamage(amount).
EnemyInit ==
    /\ now = 0
    /\ game = [isGameStarted |-> TRUE, isGameOver |-> FALSE,
               elapsedTime |-> 0, killCount |-> 0]
    /\ \E hp \in PlayerHps : player = NewPlayer(hp)
    /\ \E x \in SpawnXs : enemy = [i \in Ids |-> NewEnemy(x)]
    /\ spawned = 1
    /\ enemies = <<1>>
    /\ lastHitTime = [i \in Ids |-> 0]
    /\ enemyAttackTimers = [i \in Ids |-> 0]
    /\ hitTimes = [i \in Ids |-> <<0, 0>>]
    /\ maxEnemies = 1
    /\ character = NewCharacter
    /\ lastOp = NoOp

EnemyOp(op, amount, en) ==
    /\ enemy' = [enemy EXCEPT ![1] = en]
    /\ lastOp' = [op |-> op, amount |-> amount, pre |-> enemy[1]]
    /\ UNCHANGED <<now, game, player, spawned, enemies, lastHitTime,
                   enemyAttackTimers, hitTimes, maxEnemies, character>>

CallLoadModel ==
    /\ ~enemy[1].isModelLoaded
    /\ EnemyOp("load", 0, LoadModel(enemy[1]))

\* update(delta, player): the player stands at px; a player that was dying at
\* an earlier call is dying at this one.
CallUpdate ==
    \E delta \in Deltas, px \in HarnessPlayerXs,
       playerDying \in (IF player.isDying THEN {TRUE} ELSE BOOLEAN),
       randomAttack \in {f[1] : f \in RandomAttacks},
       loopProgress \in (IF ReadsLoopProgress THEN BOOLEAN ELSE {FALSE}) :
        \E en \in {Update([enemy[1] EXCEPT !.sfx = <<>>], delta, px,
                          playerDying, randomAttack, loopProgress)} :
            /\ en.spawnTime <= MaxSpawnTime
            /\ enemy' = [enemy EXCEPT ![1] = en]
            /\ player' = [player EXCEPT !.x = px, !.isDying = playerDying]
            /\ lastOp' = [op |-> "update", amount |-> delta, pre |-> enemy[1]]
            /\ UNCHANGED <<now, game, spawned, enemies, lastHitTime,
                           enemyAttackTimers, hitTimes, maxEnemies, character>>

CallTakeDamage ==
    \E amount \in Amounts :
        EnemyOp("takeDamage", amount,
                TakeDamage([enemy[1] EXCEPT !.sfx = <<>>], amount))

EnemyNext == CallLoadModel \/ CallUpdate \/ CallTakeDamage

EnemySpec == EnemyInit /\ [][EnemyNext]_vars

\* -------------------------------------------------------- Character harness
\* One base Character whose takeDamage is called with any amounts.
CallCharacterTakeDamage ==
    /\ character.deathCallbacks < MaxDeathCalls
    /\ \E amount \in CharacterAmounts :
        character' = CharacterTakeDamage(character, amount)
    /\ UNCHANGED <<now, game, player, enemy, spawned, enemies, lastHitTime,
                   enemyAttackTimers, hitTimes, maxEnemies, lastOp>>

CharacterNext == CallCharacterTakeDamage

CharacterSpec == Init /\ [][CharacterNext]_vars

\* The Enemy objects constructed so far.
Spawned == 1..spawned

\* An enemy standing at x after an update: mesh.position and its colliders.
Place(en, x) == UpdateColliders([en EXCEPT !.x = x])

\* --------------------------------------------------------- two-enemy game
\* The running game with two enemies whose models are loaded and a player
\* who stands still: the frames of Game.animate() only.
TwoInit ==
    /\ now = startDelay
    /\ game = [isGameStarted |-> TRUE, isGameOver |-> FALSE,
               elapsedTime |-> 0, killCount |-> 0]
    /\ \E hp \in PlayerHps :
          player = [NewPlayer(hp) EXCEPT !.attackHitbox = TRUE]
    /\ \E xs \in [Ids -> SpawnXs] :
          enemy = [i \in Ids |-> Place(LoadModel(NewEnemy(xs[i])), xs[i])]
    /\ spawned = 2
    /\ enemies = <<1, 2>>
    /\ lastHitTime = [i \in Ids |-> 0]
    /\ enemyAttackTimers = [i \in Ids |-> 0]
    /\ hitTimes = [i \in Ids |-> <<0, 0>>]
    /\ maxEnemies = 2
    /\ character = NewCharacter
    /\ lastOp = NoOp

StandingFrame == Frames({0})

TwoNext == StandingFrame \/ FrameGameOver

TwoSpec == TwoInit /\ [][TwoNext]_vars

\* ----------------------------------------------------- CombatSystem harness
\* CombatSystem.update(delta, player, enemies) called on two loaded enemies.
\* Between two calls the arguments are arranged: the enemies stand at
\* positions of CombatXs with their colliders refreshed, and the player's
\* strike window is open or closed.  Enemy 1 is built with the constructor's
\* default maxHp and its own attackCooldown, enemy 2 with Game's attackCooldown
\* and a maxHp that one hit of the player takes away, so that calls reach an
\* enemy that is already dying.
CombatXs == {1, MaxPos}
CombatPlayerHps == {8}
CombatCooldowns == <<10, enemyOwnAttackCooldown>>
CombatMaxHps == <<defaultMaxHp, playerAttackDamage>>

\* The options maxHp and attackCooldown of Enemy.constructor.
EnemyWith(x, maxHp, attackCooldown) ==
    [NewEnemy(x) EXCEPT !.hp = maxHp, !.maxHp = maxHp,
                        !.attackCooldown = attackCooldown]

CombatInit ==
    /\ now = 0
    /\ game = [isGameStarted |-> TRUE, isGameOver |-> FALSE,
               elapsedTime |-> 0, killCount |-> 0]
    /\ \E hp \in CombatPlayerHps :
          player = [NewPlayer(hp) EXCEPT !.attackHitbox = TRUE]
    /\ \E xs \in [Ids -> CombatXs] :
          enemy = [i \in Ids |->
                     Place(LoadModel(EnemyWith(xs[i], CombatMaxHps[i],
                                               CombatCooldowns[i])), xs[i])]
    /\ spawned = 2
    /\ enemies = <<1, 2>>
    /\ lastHitTime = [i \in Ids |-> 0]
    /\ enemyAttackTimers = [i \in Ids |-> 0]
    /\ hitTimes = [i \in Ids |-> <<0, 0>>]
    /\ maxEnemies = 2
    /\ character = NewCharacter
    /\ lastOp = NoOp

\* The arguments of the next call are arranged.  Only a player who stands on
\* the ground strikes.
CallPlace ==
    /\ lastOp.op # "place"
    /\ \E strike \in (IF player.y = groundY THEN BOOLEAN ELSE {FALSE}),
          xs \in [Ids -> CombatXs] :
          /\ player' = [player EXCEPT !.isAttackActive = strike]
          /\ enemy' = [i \in Ids |-> IF i \in Spawned
                                     THEN Place(enemy[i], xs[i])
                                     ELSE enemy[i]]
    /\ lastOp' = [NoOp EXCEPT !.op = "place"]
    /\ UNCHANGED <<now, game, spawned, enemies, lastHitTime,
                   enemyAttackTimers, hitTimes, maxEnemies, character>>

\* combatSystem.update(delta, player, enemies) at performance.now() = now'.
CallCombatUpdate ==
    /\ now < (IF spawned = 1 THEN MaxSoloNow ELSE MaxCombatNow)
    /\ \E delta \in Deltas :
          \E w \in {CombatUpdate(World, delta, now + delta)} :
            /\ now' = now + delta
            /\ player' = w.player
            /\ enemy' = w.enemy
            /\ lastHitTime' = w.lastHitTime
            /\ enemyAttackTimers' = w.enemyAttackTimers
            /\ hitTimes' = w.hitTimes
            /\ lastOp' = [NoOp EXCEPT !.op = "combat", !.amount = delta]
    /\ UNCHANGED <<game, spawned, enemies, maxEnemies, character>>

CombatNext == CallPlace \/ CallCombatUpdate

CombatSpec == CombatInit /\ [][CombatNext]_vars

\* The same harness with one enemy, built with the constructor's default
\* maxHp, over a longer time.
\* The height of the player's mesh.position in a run with one enemy: on the
\* ground or two units above it.
SoloPlayerYs == {groundY, groundY + 2}

SoloInit ==
    /\ now = 0
    /\ game = [isGameStarted |-> TRUE, isGameOver |-> FALSE,
               elapsedTime |-> 0, killCount |-> 0]
    /\ \E hp \in CombatPlayerHps, y \in SoloPlayerYs :
          player = [NewPlayer(hp) EXCEPT !.attackHitbox = TRUE, !.y = y]
    /\ \E x \in CombatXs :
          enemy = [i \in Ids |->
                     IF i = 1
                     THEN Place(LoadModel(EnemyWith(x, defaultMaxHp,
                                                    enemyOwnAttackCooldown)), x)
                     ELSE NewEnemy(0)]
    /\ spawned = 1
    /\ enemies = <<1>>
    /\ lastHitTime = [i \in Ids |-> 0]
    /\ enemyAttackTimers = [i \in Ids |-> 0]
    /\ hitTimes = [i \in Ids |-> <<0, 0>>]
    /\ maxEnemies = 1
    /\ character = NewCharacter
    /\ lastOp = NoOp

SoloSpec == SoloInit /\ [][CombatNext]_vars

\* ------------------------------------------------------------------ claims
\* C1: for every enemy, whatever updates (ticks with their animation-finished
\* events) and takeDamage calls are made, 0 <= hp <= maxHp holds after every
\* step and no step increases hp.
C1_HpBoundedNonIncreasing ==
    [][\A i \in Ids : /\ 0 <= enemy'[i].hp
                      /\ enemy'[i].hp <= enemy'[i].maxHp
                      /\ enemy'[i].hp <= enemy[i].hp]_vars

\* A takeDamage call whose amount exceeds the hp left: the clamp has acted.
C1_Witness ==
    /\ lastOp.op = "takeDamage"
    /\ lastOp.pre.hp > 0
    /\ lastOp.pre.hp - lastOp.amount < 0
    /\ enemy[1].hp = 0

\* C2: takeDamage on an enemy that is already dying changes nothing (hp,
\* state, previousState, the attack-window flag and every other field are as
\* before the call) and triggers no sound.
C2_DyingTakeDamageNoOp ==
    (lastOp.op = "takeDamage" /\ lastOp.pre.isDying)
        => enemy[1] = [lastOp.pre EXCEPT !.sfx = <<>>]

C2_Witness ==
    lastOp.op = "takeDamage" /\ lastOp.pre.isDying /\ lastOp.amount > 0

\* C3 (as claimed): in every reachable state an enemy whose hp is 0 is in its
\* death sequence: state = death and isDying.
C3_ZeroHpIsDeath ==
    \A i \in Spawned :
        enemy[i].hp = 0 => enemy[i].state = "death" /\ enemy[i].isDying

\* The safety part of C4: onDeathCallback is invoked at most once, only for a
\* dying enemy with hp 0, and an enemy stays in the live collection exactly
\* until its callback is invoked.
C4_Safety ==
    \A i \in Spawned :
        /\ enemy[i].deathCallbacks <= 1
        /\ enemy[i].deathCallbacks = 1
              => enemy[i].hp = 0 /\ enemy[i].isDying
        /\ enemy[i].deathCallbacks = 0
              <=> \E k \in 1..Len(enemies) : enemies[k] = i

\* The progress part of C4 in a form a finite run decides: only the Death
\* clip's 'finished' invokes the callback and die() never starts the clip
\* again, so a dying enemy that is still to be removed must have its Death
\* clip running.
C4_CanComplete ==
    \A i \in Spawned :
        (enemy[i].isDying /\ enemy[i].deathCallbacks = 0)
            => enemy[i].clips["Death"].st = "run"

\* C4 (as claimed): onDeathCallback is invoked exactly once per enemy, only
\* when its Death animation has finished after hp reached 0; until then the
\* enemy stays in the live collection, and it is eventually invoked.
C4_DeathCallbackOnce == C4_Safety /\ C4_CanComplete

\* C5 (as claimed): for the base Character, once hp has reached 0 further
\* takeDamage calls do not invoke onDeathCallback again.
C5_CharacterDiesOnce == character.deathCallbacks <= 1

\* C6 (as claimed): death is terminal: no step takes an enemy whose state is
\* death to another state.
C6_DeathIsTerminal ==
    [][\A i \in Ids : enemy[i].state = "death" => enemy'[i].state = "death"]_vars

\* C7: a takeDamage call on a non-dying enemy in state s that leaves hp > 0
\* ends with state = hit and previousState = s.
C7_DamageInterrupt ==
    (lastOp.op = "takeDamage" /\ ~lastOp.pre.isDying /\ enemy[1].hp > 0)
        => /\ enemy[1].state = "hit"
           /\ enemy[1].previousState = lastOp.pre.state

\* Damage has interrupted an attack.
C7_Witness ==
    /\ lastOp.op = "takeDamage"
    /\ lastOp.pre.state = "attack"
    /\ enemy[1].hp > 0
    /\ enemy[1].state = "hit"

\* C8 (as claimed): an enemy in hit or death has its attack-window flag
\* false; the flag is true only while state = attack.
C8_WindowOnlyInAttack ==
    \A i \in Spawned : enemy[i].isAttackActive => enemy[i].state = "attack"

\* C9 (as claimed): whenever the Hit animation is playing, its 'finished'
\* event leaves the enemy in idle (previousState idle) or in chase
\* (previousState chase or attack), never in another state.
C9_HitFinishedRestores ==
    \A i \in Spawned :
        enemy[i].clips["Hit"].st = "run" =>
            LET r == OnFinished([enemy[i] EXCEPT !.clips["Hit"] = ClipOff],
                                "Hit")
            IN  /\ r.state \in {"idle", "chase"}
                /\ enemy[i].previousState = "idle" => r.state = "idle"
                /\ enemy[i].previousState \in {"chase", "attack"}
                      => r.state = "chase"

\* C10: any two applications of player damage to the same enemy are at least
\* 1000 ms apart, whatever the frame times.
C10_RehitCooldown ==
    \A i \in Spawned :
        hitTimes[i][1] > 0 => hitTimes[i][2] - hitTimes[i][1] >= rehitCooldown

\* The player has damaged the same enemy twice.
C10_Witness == \E i \in Spawned : hitTimes[i][1] > 0

\* C11: the re-hit cooldown is per enemy.  In every call of the combat
\* system, each enemy whose hurtbox overlaps the player's active attack volume
\* takes the player's damage exactly when its own last-hit timestamp is at
\* least 1000 ms old, and its timestamp changes exactly then; what happens to
\* the other enemy in the same call has no influence.
C11_PerEnemyCooldown ==
    [][now' > now =>
        \A i \in Spawned :
            LET due == /\ player.isAttackActive /\ player.attackHitbox
                       /\ enemy[i].hitBox
                       /\ IntersectsBox(player.x, enemy[i].boxX)
                       /\ now' - lastHitTime[i] >= rehitCooldown
            IN  /\ due => /\ lastHitTime'[i] = now'
                          /\ enemy'[i].hp =
                               IF enemy[i].isDying THEN enemy[i].hp
                               ELSE Max(0, enemy[i].hp - playerAttackDamage)
                /\ ~due => /\ lastHitTime'[i] = lastHitTime[i]
                           /\ enemy'[i].hp = enemy[i].hp]_vars

\* One swing over both enemies: enemy 1 was damaged, enemy 2 was spared by
\* its own, younger timestamp.
C11_Witness ==
    /\ lastOp.op = "combat"
    /\ spawned = 2
    /\ player.isAttackActive
    /\ \A i \in Spawned : IntersectsBox(player.x, enemy[i].boxX)
    /\ lastHitTime[1] = now
    /\ lastHitTime[2] > 0
    /\ lastHitTime[2] < now

\* C12: in a call of the combat system the player's hp drops only if some
\* enemy is within its attackRange with a cooldown timer <= 0, and a living
\* player's hp drops by exactly the attackDamage of each such enemy, clamped
\* at 0.  The distance is the one at the enemy's turn, after the knockback of
\* the same call.
C12_EnemyAttackGate ==
    [][now' > now =>
        LET Attacks(i) == /\ i \in Spawned
                          /\ Abs(player.x - enemy'[i].x) <= enemy[i].attackRange
                          /\ enemyAttackTimers[i] <= 0
            Dmg(i) == IF Attacks(i) THEN enemy[i].attackDamage ELSE 0
        IN  /\ player'.hp < player.hp => \E i \in Spawned : Attacks(i)
            /\ ~player.isDying
                  => player'.hp = Max(0, player.hp - (Dmg(1) + Dmg(2)))]_vars

\* The player has taken one enemy's attackDamage in the last call.
C12_Witness ==
    /\ lastOp.op = "combat"
    /\ spawned = 2
    /\ \E hp \in CombatPlayerHps : player.hp = hp - enemyAttackDamage
    /\ \E i \in Spawned : enemyAttackTimers[i] = enemyAttackCooldown

\* C13 (as claimed): right after an enemy's attack has damaged the player,
\* its cooldown timer equals that enemy's own attackCooldown.
C13_TimerResetOwnCooldown ==
    [][now' > now =>
        \A i \in Spawned :
            (/\ ~player.isDying
             /\ Abs(player.x - enemy'[i].x) <= enemy[i].attackRange
             /\ enemyAttackTimers[i] <= 0)
                => enemyAttackTimers'[i] = enemy[i].attackCooldown]_vars

\* C14 (as claimed): an enemy in range whose positive timer is brought to
\* <= 0 by the elapsed time of a call damages the player in that very call.
C14_DamageInExpiringTick ==
    [][now' > now =>
        \A i \in Spawned :
            (/\ ~player.isDying
             /\ Abs(player.x - enemy'[i].x) <= enemy[i].attackRange
             /\ enemyAttackTimers[i] > 0
             /\ enemyAttackTimers[i] - (now' - now) <= 0)
                => player'.hp <= Max(0, player.hp - enemy[i].attackDamage)]_vars

\* C15: a loaded enemy with maxHp 50 hit by the player for 15: hp only takes
\* the values 50, 35, 20, 5, 0; every hit lowers it by 15 clamped at 0 and
\* leaves state hit while hp > 0 and state death (dying) at hp 0.
C15_FourHitsKill ==
    /\ [](\A i \in Spawned :
            enemy[i].maxHp = defaultMaxHp
                => /\ enemy[i].hp \in {50, 35, 20, 5, 0}
                   /\ enemy[i].hp = 0 => enemy[i].state = "death")
    /\ [][\A i \in Spawned :
            (enemy[i].maxHp = defaultMaxHp /\ enemy'[i].hp # enemy[i].hp)
                => /\ enemy'[i].hp = Max(0, enemy[i].hp - playerAttackDamage)
                   /\ enemy'[i].state = IF enemy'[i].hp > 0 THEN "hit"
                                        ELSE "death"
                   /\ enemy'[i].isDying = (enemy'[i].hp = 0)
                   /\ hitTimes'[i][2] - hitTimes'[i][1] >= rehitCooldown]_vars

\* The fourth hit has landed: from 5 to 0.
C15_Witness ==
    /\ spawned = 1
    /\ enemy[1].maxHp = defaultMaxHp
    /\ enemy[1].hp = 0
    /\ enemy[1].state = "death"
    /\ hitTimes[1][1] >= 3 * rehitCooldown

\* C16 (as claimed): in every frame of the running game, when the combat
\* step starts, every live enemy with a hurtbox has had its hitBoxCollider
\* set from its current position by its update of the same frame.
C16_CollidersFresh ==
    (game.isGameStarted /\ ~game.isGameOver) =>
        \A delta \in Deltas, move \in {-1, 0, 1}, strike \in BOOLEAN,
           deathDone \in (IF player.isDying THEN BOOLEAN ELSE {FALSE}),
           randomAttack \in RandomAttacks,
           loopProgress \in (IF ReadsLoopProgress THEN BOOLEAN ELSE {FALSE}) :
            LET w == BeforeCombat(World, spawned, delta, move, strike,
                                  deathDone, -1, randomAttack, loopProgress)
            IN  \A k \in 1..Len(w.enemies) :
                    LET en == w.enemy[w.enemies[k]]
                    IN  en.hitBox => en.boxX = {en.x}

\* C17: removal never disturbs an iteration.  In every frame each enemy that
\* is in the live collection when the update pass starts is updated exactly
\* once, also when an enemy before it is removed by its death callback during
\* the pass; an enemy is taken out exactly when its callback fires, and the
\* combat step of the same frame leaves a removed enemy untouched.
C17_RemovalOutsideIteration ==
    (game.isGameStarted /\ ~game.isGameOver) =>
        \A delta \in Deltas, strike \in BOOLEAN,
           deathDone \in (IF player.isDying THEN BOOLEAN ELSE {FALSE}),
           randomAttack \in RandomAttacks,
           loopProgress \in (IF ReadsLoopProgress THEN BOOLEAN ELSE {FALSE}) :
            LET w == BeforeCombat(World, spawned, delta, 0, strike, deathDone,
                                  -1, randomAttack, loopProgress)
                u == CombatUpdate(w, delta, now + delta)
            IN  \A k \in 1..Len(enemies) :
                    LET i == enemies[k]
                        once == Update([enemy[i] EXCEPT !.sfx = <<>>], delta,
                                       w.player.x, w.player.isDying,
                                       randomAttack[i], loopProgress)
                        removed == once.deathCallbacks > enemy[i].deathCallbacks
                    IN  /\ w.enemy[i] = once
                        /\ removed <=> ~\E j \in 1..Len(w.enemies) :
                                          w.enemies[j] = i
                        /\ removed => /\ u.enemy[i] = once
                                      /\ u.lastHitTime[i] = lastHitTime[i]
                                      /\ u.enemyAttackTimers[i] =
                                            enemyAttackTimers[i]

\* The first enemy of the collection was removed in a pass that went on to
\* the second, which is still live.
C17_Witness ==
    /\ spawned = 2
    /\ enemies = <<2>>
    /\ enemy[1].deathCallbacks = 1
    /\ game.killCount = 1

\* C18: an idle enemy whose spawn time reaches spawnDelay in an update made
\* with a living player is in attack after the update if the player is within
\* attackRange and in chase otherwise, whatever the frame time and whichever
\* attack clip the random choice picks.
C18_IdleSuccessor ==
    (enemy[1].state = "idle" /\ ~player.isDying) =>
        \A delta \in Deltas, px \in HarnessPlayerXs,
           randomAttack \in {"Punch", "Kick"}, loopProgress \in BOOLEAN :
            enemy[1].spawnTime + delta >= spawnDelay =>
                Update(enemy[1], delta, px, FALSE, randomAttack,
                       loopProgress).state
                    = IF Abs(px - enemy[1].x) <= enemy[1].attackRange
                      THEN "attack" ELSE "chase"

\* An update has taken an idle enemy past its spawn delay to attack.
C18_Witness ==
    /\ lastOp.op = "update"
    /\ lastOp.pre.state = "idle"
    /\ ~player.isDying
    /\ enemy[1].spawnTime >= spawnDelay
    /\ Abs(player.x - enemy[1].x) = 1
    /\ enemy[1].state = "attack"

\* C19 (as claimed): an enemy whose spawn time is below spawnDelay is in idle,
\* or in hit with previousState idle, or in death.
C19_BeforeDelay ==
    enemy[1].spawnTime < spawnDelay =>
        \/ enemy[1].state = "idle"
        \/ enemy[1].state = "hit" /\ enemy[1].previousState = "idle"
        \/ enemy[1].state = "death"

\* The part of C19 that the code keeps: no chase or attack before the delay.
C19_NoChaseOrAttackBeforeDelay ==
    enemy[1].spawnTime < spawnDelay
        => enemy[1].state \notin {"chase", "attack"}

\* C20 (as claimed): an update takes an enemy out of attack only to chase,
\* with the player beyond attackRange, or to idle, with an attack clip
\* finished in that update; the attack-window flag is false afterwards.
C20_AttackExits ==
    enemy[1].state = "attack" =>
        \A delta \in Deltas, px \in HarnessPlayerXs,
           playerDying \in (IF player.isDying THEN {TRUE} ELSE BOOLEAN),
           randomAttack \in {"Punch", "Kick"}, loopProgress \in BOOLEAN :
            LET r == Update(enemy[1], delta, px, playerDying, randomAttack,
                            loopProgress)
                finished == \E c \in {"Punch", "Kick"} :
                               /\ enemy[1].clips[c].st = "run"
                               /\ enemy[1].clips[c].t + delta >= ClipDuration(c)
            IN  r.state # "attack" =>
                    /\ ~r.isAttackActive
                    /\ r.state \in {"chase", "idle"}
                    /\ r.state = "chase"
                          => Abs(px - enemy[1].x) > enemy[1].attackRange
                    /\ r.state = "idle" => finished

\* An update has taken an enemy with its hit window open from attack to chase.
C20_Witness ==
    /\ lastOp.op = "update"
    /\ lastOp.pre.state = "attack"
    /\ lastOp.pre.isAttackActive
    /\ enemy[1].state = "chase"
    /\ ~enemy[1].isAttackActive

\* C21: in a call of the combat system an enemy's cooldown timer is left as
\* it is when the player is beyond that enemy's attackRange, and it is
\* lowered, by the elapsed time of the call, exactly when the enemy is in
\* range with a positive timer.
C21_TimerRunsOnlyInRange ==
    [][now' > now =>
        \A i \in Spawned :
            LET inRange == Abs(player.x - enemy'[i].x) <= enemy[i].attackRange
                timer == enemyAttackTimers[i]
            IN  /\ ~inRange => enemyAttackTimers'[i] = timer
                /\ (inRange /\ timer > 0)
                      => enemyAttackTimers'[i] = timer - (now' - now)
                /\ enemyAttackTimers'[i] < timer => (inRange /\ timer > 0)]_vars

\* A call has left the positive timer of an enemy out of range as it was.
C21_Witness ==
    /\ lastOp.op = "combat"
    /\ spawned = 2
    /\ \E i \in Spawned :
          /\ enemyAttackTimers[i] > 0
          /\ Abs(player.x - enemy[i].x) > enemy[i].attackRange

\* C22: the damage enemies deal to the player does not depend on the
\* enemies' isAttackActive flags: a call of the combat system on the current
\* world and the same call on a world that differs only in those flags leave
\* the same player and the same cooldown timers.
C22_FlagIrrelevant ==
    \A delta \in Deltas : \A f \in [Ids -> BOOLEAN] :
        LET w == World
            flagged == [w EXCEPT !.enemy =
                          [i \in DOMAIN w.enemy |->
                              [w.enemy[i] EXCEPT !.isAttackActive = f[i]]]]
            a == CombatUpdate(w, delta, now + delta)
            b == CombatUpdate(flagged, delta, now + delta)
        IN  /\ a.player = b.player
            /\ a.enemyAttackTimers = b.enemyAttackTimers

\* An enemy outside its attack window has just damaged the player.
C22_Witness ==
    /\ now > startDelay
    /\ player.hp < player.maxHp
    /\ \E i \in Spawned :
          /\ ~enemy[i].isAttackActive
          /\ enemyAttackTimers[i] = enemyAttackCooldown
          /\ Abs(player.x - enemy[i].x) <= enemy[i].attackRange

\* C23: in every frame the player-to-enemy pass leaves an enemy (hp, state,
\* position and all) and its last-hit timestamp exactly as they were unless
\* the player's attack is active, the player has an attack volume, the enemy
\* has a hurtbox and the two volumes overlap.  The frames are those that
\* start in a reachable state with a player who strikes or not, from where
\* the player stands.
C23_PassNeedsAllFour ==
    (game.isGameStarted /\ ~game.isGameOver) =>
        \A delta \in Deltas, move \in {0}, strike \in BOOLEAN,
           deathDone \in (IF player.isDying THEN BOOLEAN ELSE {FALSE}),
           randomAttack \in RandomAttacks,
           loopProgress \in (IF ReadsLoopProgress THEN BOOLEAN ELSE {FALSE}) :
            LET w == BeforeCombat(World, spawned, delta, move, strike,
                                  deathDone, -1, randomAttack, loopProgress)
                u == HandlePlayerAttack(w, now + delta)
            IN  \A i \in Spawned :
                    LET en == w.enemy[i]
                        allFour == /\ w.player.isAttackActive
                                   /\ w.player.attackHitbox
                                   /\ en.hitBox
                                   /\ IntersectsBox(w.player.x, en.boxX)
                    IN  ~allFour => /\ u.enemy[i] = en
                                    /\ u.lastHitTime[i] = w.lastHitTime[i]

\* A striking player without an attack volume overlapped a live enemy's
\* hurtbox, and the enemy is unharmed.
C23_Witness ==
    /\ player.isAttackActive
    /\ ~player.attackHitbox
    /\ \E k \in 1..Len(enemies) :
          LET en == enemy[enemies[k]]
          IN  /\ en.hitBox
              /\ IntersectsBox(player.x, en.boxX)
              /\ en.hp = en.maxHp
              /\ lastHitTime[enemies[k]] = 0

\* C24: an enemy in its death sequence stops acting.  In a frame that it
\* begins and ends in state death, still in the live collection, the combat
\* system does not apply its attack to the player: its cooldown timer is not
\* spent on a blow that lowers the player's hp.
C24_DyingEnemyHarmless ==
    [][\A i \in Spawned :
          (/\ enemy[i].state = "death"
           /\ enemy'[i].state = "death"
           /\ \E k \in 1..Len(enemies') : enemies'[k] = i)
          => ~(/\ enemyAttackTimers[i] <= 0
               /\ enemyAttackTimers'[i] = enemyAttackCooldown
               /\ player'.hp < player.hp)]_vars

\* C25: the player-to-enemy pass leaves an enemy that is already in its death
\* sequence alone: no call of the combat system displaces it and none
\* records a new last-hit timestamp for it.
C25_DyingEnemyUntouched ==
    [][(now' > now /\ ~player.isDying) => \A i \in Spawned :
          (enemy[i].isDying /\ enemy[i].state = "death")
              => /\ enemy'[i].x = enemy[i].x
                 /\ lastHitTime'[i] = lastHitTime[i]]_vars

\* C26: the enemy-to-player range test looks at the horizontal distance only.
\* Whatever the height of the player above the enemy, a call of the combat
\* system treats the player as in range of an enemy (it spends or runs down
\* the enemy's cooldown timer) exactly when the horizontal distance is at
\* most attackRange.
C26_HorizontalRangeOnly ==
    [][now' > now =>
        \A i \in Spawned :
            (Abs(player.x - enemy'[i].x) <= enemy[i].attackRange)
                <=> enemyAttackTimers'[i] # enemyAttackTimers[i]]_vars

\* C27: every successful hit of the player (one that records a new last-hit
\* timestamp) moves the enemy exactly one unit directly away from the player
\* in the horizontal plane, wherever the two stand, the enemy standing at the
\* player's own horizontal position included.
C27_KnockbackOneUnitAway ==
    (game.isGameStarted /\ ~game.isGameOver) =>
        \A delta \in Deltas, move \in {-1, 0, 1}, strike \in BOOLEAN,
           deathDone \in (IF player.isDying THEN BOOLEAN ELSE {FALSE}),
           randomAttack \in RandomAttacks,
           loopProgress \in (IF ReadsLoopProgress THEN BOOLEAN ELSE {FALSE}) :
            LET w == BeforeCombat(World, spawned, delta, move, strike,
                                  deathDone, -1, randomAttack, loopProgress)
                u == HandlePlayerAttack(w, now + delta)
            IN  \A i \in Spawned :
                    u.lastHitTime[i] # w.lastHitTime[i]
                        => /\ Abs(u.enemy[i].x - w.enemy[i].x) = knockback
                           /\ Abs(u.enemy[i].x - w.player.x)
                                 = Abs(w.enemy[i].x - w.player.x) + knockback

\* C28: the enemy attack sound is played at most once per entry into attack,
\* and only on the first tick of that attack whose animation progress lies in
\* the window [0.45, 0.55]; entering attack again re-arms it.  For every call
\* of update: the sound is played at most once; it is played exactly when the
\* switch finds the enemy in attack, unsounded, with the progress of its
\* current action in the window; a played sound marks the attack as sounded;
\* every entry into attack leaves it unsounded, and nothing else does.  No
\* other operation plays the sound or touches the mark.
C28_AttackSoundOncePerAttack ==
    [][LET pre == enemy[1]
           post == enemy'[1]
           plays == {k \in DOMAIN post.sfx : post.sfx[k] = "enemyAttack"}
       IN  IF lastOp'.op = "update"
           THEN LET m == MixerUpdate([pre EXCEPT !.sfx = <<>>],
                                     lastOp'.amount)
                    switched == /\ m.state \notin {"death"}
                                /\ ~player'.isDying
                    inWindow ==
                        /\ m.currentAction # None
                        /\ m.currentAction \in OneShot
                              => InHitWindow(m.clips[m.currentAction].t,
                                             ClipDuration(m.currentAction))
                    entered == /\ switched
                               /\ m.state \in {"idle", "chase"}
                               /\ post.state = "attack"
                IN  /\ Cardinality(plays) <= 1
                    /\ plays # {} => /\ switched
                                     /\ m.state = "attack"
                                     /\ pre.state = "attack"
                                     /\ ~pre.attackSoundPlayed
                                     /\ inWindow
                                     /\ post.attackSoundPlayed
                    /\ (/\ switched
                        /\ m.state = "attack"
                        /\ ~pre.attackSoundPlayed
                        /\ m.currentAction \in OneShot
                        /\ inWindow) => plays # {}
                    /\ entered => ~post.attackSoundPlayed
                    /\ (pre.attackSoundPlayed /\ ~post.attackSoundPlayed)
                          => entered
           ELSE /\ plays = {}
                /\ post.attackSoundPlayed = pre.attackSoundPlayed]_vars

\* An update has played the attack sound of an enemy that was in attack and
\* unsounded, and has marked the attack as sounded.
C28_Witness ==
    /\ lastOp.op = "update"
    /\ lastOp.pre.state = "attack"
    /\ ~lastOp.pre.attackSoundPlayed
    /\ enemy[1].attackSoundPlayed
    /\ \E k \in DOMAIN enemy[1].sfx : enemy[1].sfx[k] = "enemyAttack"
    /\ enemy[1].hp < enemy[1].maxHp

\* C29: a living enemy in hit leaves hit when its Hit animation finishes,
\* also when it was damaged again while in hit: the update in which the Hit
\* clip of a loaded enemy in state hit stops running ends in another state.
C29_HitEndsWhenClipEnds ==
    [][\A i \in Spawned :
          (/\ lastOp'.op = "update"
           /\ enemy[i].isModelLoaded
           /\ enemy[i].state = "hit"
           /\ enemy[i].clips["Hit"].st = "run"
           /\ enemy'[i].clips["Hit"].st # "run")
          => enemy'[i].state # "hit"]_vars

\* C30: Game.killCount always equals the number of enemies that were removed
\* from the live collection; every step raises it by exactly the number of
\* enemies it removes, by one for each death, and nothing else changes it.
C30_KillCountIsRemovals ==
    /\ [](game.killCount
             = Cardinality({i \in Spawned :
                               \A k \in DOMAIN enemies : enemies[k] # i}))
    /\ [][LET gone == {i \in Spawned :
                          \A k \in DOMAIN enemies : enemies[k] # i}
              goneNext == {i \in Spawned :
                              \A k \in DOMAIN enemies' : enemies'[k] # i}
          IN  /\ gone \subseteq goneNext
              /\ game'.killCount
                    = game.killCount + Cardinality(goneNext \ gone)
              /\ \A i \in Spawned :
                    i \in goneNext \ gone
                       <=> enemy'[i].deathCallbacks
                              = enemy[i].deathCallbacks + 1
         ]_vars

\* Both enemies of the run have died and were counted.
C30_Witness ==
    /\ game.killCount = 2
    /\ enemies = <<>>
    /\ \A i \in Spawned : enemy[i].deathCallbacks = 1

\* C31: the simulation advances only while the game is started and not over.
\* A frame (a step in which performance.now() advances) that begins with
\* isGameStarted false or isGameOver true leaves elapsedTime, every enemy's
\* state, hp and position, the live collection, the player's hp and all
\* combat timers and timestamps as they were; and no step takes isGameOver
\* from true back to false.
C31_FrozenUnlessRunning ==
    [][/\ (now' > now /\ (~game.isGameStarted \/ game.isGameOver))
            => /\ game'.elapsedTime = game.elapsedTime
               /\ game'.killCount = game.killCount
               /\ \A i \in Ids : /\ enemy'[i].state = enemy[i].state
                                 /\ enemy'[i].hp = enemy[i].hp
                                 /\ enemy'[i].x = enemy[i].x
               /\ enemies' = enemies
               /\ spawned' = spawned
               /\ player'.hp = player.hp
               /\ enemyAttackTimers' = enemyAttackTimers
               /\ lastHitTime' = lastHitTime
       /\ game.isGameOver => game'.isGameOver
      ]_vars

\* The game is over, a frame has passed since without being simulated
\* (performance.now() is ahead of the start delay plus the simulated time),
\* and a live enemy within range of the player has a cooldown timer that a
\* simulated frame would run down.
C31_Witness ==
    /\ game.isGameOver
    /\ now > startDelay + game.elapsedTime
    /\ \E k \in 1..Len(enemies) :
          LET i == enemies[k]
          IN  /\ enemy[i].state # "death"
              /\ ~BeyondRange(player, enemy[i])
              /\ enemyAttackTimers[i] > 0
====
